---- MODULE Spec2Model ----
(***************************************************************************)
(* Task repository of the todo application (src/js/main.js): the in-memory *)
(* list `todos`, the IndexedDB object store "todos" behind it, and the     *)
(* asynchronous calls loadTodos / addTodo / updateTodo / deleteTodo /      *)
(* clearCompleted that keep the two in step.                               *)
(*                                                                         *)
(* JavaScript objects have identity: the list holds references, and the    *)
(* caller of updateTodo usually passes an object that is already in the    *)
(* list.  The model therefore keeps a heap (reference -> object) and the   *)
(* list is a sequence of references.  IndexedDB stores structured clones,  *)
(* so the store and the transactions hold values, not references.          *)
(*                                                                         *)
(* One JavaScript task (an event callback together with the microtasks it  *)
(* schedules) is one action: nothing else runs in between.                 *)
(*                                                                         *)
(* Of the text fields of an item only `title` is kept: main.js treats      *)
(* `description` and `notes` exactly as it treats `title`.                 *)
(*                                                                         *)
(* The same module holds the settings of main.js (the object store         *)
(* "settings", localStorage as the fallback of the theme, the data-theme   *)
(* attribute), the markup formatter of src/js/script.js (escaping, the     *)
(* inline passes and the table conversion), the handlers of src/js/ui.js   *)
(* that change items, and the lazy loading of the page (loadUI of          *)
(* script.js, initUI of ui.js), each with specifications of its own.       *)
(***************************************************************************)
EXTENDS Integers, Sequences, FiniteSets, TLC

VARIABLES
    now,      \* reading of the clock behind new Date().toISOString()
    db,       \* main.js:9   TRUE once the database handle is cached
    openq,    \* calls whose indexedDB.open request is pending, oldest first
    store,    \* committed content of the object store "todos": id -> record
    txq,      \* transactions on the store in creation order; the head is active,
              \* the others wait for it to finish (they overlap in scope)
    heap,     \* reference -> object
    todos,    \* main.js:10  the in-memory list: a sequence of references
    calls,    \* per call slot: the async function in flight and its position
    before,   \* per call slot, for a watched call: what list() showed and what the
              \* argument held when the call was made
    settings, \* committed content of the object store "settings": key -> record
    local,    \* localStorage: key -> value
    applied,  \* the data-theme attribute of the document element
    prefersDark, \* what matchMedia("(prefers-color-scheme: dark)").matches yields
    md,       \* script.js: the text handed to parseMarkdown, as lines of characters
    pos,      \* script.js:204  the loop index i of convertTables, from 1 (0: not called)
    lines,    \* script.js:200  the lines convertTables works on
    buffer,   \* script.js:202  the run of table lines collected so far
    output,   \* script.js:201  the lines emitted so far
    uiModule, \* script.js:4   TRUE once the module ui.js is held
    initPromise, \* script.js:5  null, or the state of the promise of the import and
              \* the initialization that follows it
    loader,   \* TRUE while the loading overlay is shown
    loading,  \* per trigger: where its call of loadUI stands
    imports,  \* how often ui.js has been imported
    inits     \* how often initUI has been invoked

\* the document and its fallback store, the formatter of script.js and its lazy
\* loading of the page
theme == <<local, applied, prefersDark>>
formatter == <<md, pos, lines, buffer, output>>
bootstrap == <<uiModule, initPromise, loader, loading, imports, inits>>
repository == <<now, db, openq, store, txq, heap, todos, calls, before, settings, theme>>

vars == <<now, db, openq, store, txq, heap, todos, calls, before, settings, theme, formatter, bootstrap>>

-----------------------------------------------------------------------------
(* Bounds *)

MaxCalls == 2      \* calls that may be in flight at once
MaxLen == 2        \* longest in-memory list explored
MaxClock == 1      \* last clock reading explored
MaxLines == 4      \* longest text formatted, in lines
MaxTriggers == 2   \* calls of loadUI explored

Ids == {"a", "b"}
IdOrder == <<"a", "b">>
Titles == {"t1", "t2"}

Slots == 1..MaxCalls
Triggers == 1..MaxTriggers
Refs == 1..(MaxLen + MaxCalls)
NoRef == 0
NoRec == [none |-> TRUE]

\* the keys of the settings the callers use, and the key order of the settings store
Keys == {"lang", "theme"}
KeyOrder == <<"lang", "theme">>

\* JavaScript's null, where a string is expected
null == "null"

-----------------------------------------------------------------------------
(* Values *)

Range(s) == {s[i] : i \in 1..Len(s)}

Item(id, title, completed, created, updated) ==
    [id |-> id, title |-> title, priority |-> "medium", completed |-> completed,
     selected |-> FALSE, createdAt |-> created, updatedAt |-> updated]

\* a call slot: the function called, where it stands, the object and the id it was
\* given, clearCompleted's toDelete, the key and value of a setting, the ids given to
\* the export, the stores clearAllData has still to clear, the error the call has
\* met, the value it returns, and the handler of ui.js that awaits the call, if one
\* does
IdleCall == [op |-> "none", pc |-> "idle", ref |-> NoRef, id |-> "", toDelete |-> <<>>,
             key |-> "", value |-> null, ids |-> null, stores |-> <<>>,
             err |-> {}, ret |-> null, handler |-> ""]

\* list(): the values of the objects the list refers to, in list order
ListView == [n \in 1..Len(todos) |-> heap[todos[n]]]

\* the records of the object store, in key order (what getAll returns)
RECURSIVE RecordsFrom(_, _)
RecordsFrom(s, order) ==
    IF order = <<>> THEN <<>>
    ELSE IF s[Head(order)] = NoRec THEN RecordsFrom(s, Tail(order))
    ELSE <<s[Head(order)]>> \o RecordsFrom(s, Tail(order))

StoreRecords(s) == RecordsFrom(s, IdOrder)

-----------------------------------------------------------------------------
(* The heap *)

FreeRefs(h) == {r \in Refs : h[r] = NoRec}

RECURSIVE Smallest(_, _)
Smallest(S, n) ==
    IF n = 0 THEN <<>>
    ELSE LET m == CHOOSE x \in S : \A y \in S : x <= y
         IN  <<m>> \o Smallest(S \ {m}, n - 1)

\* the references held by the list and the calls, each once, in order of first use
RECURSIVE Distinct(_, _)
Distinct(s, seen) ==
    IF s = <<>> THEN <<>>
    ELSE IF Head(s) \in seen \/ Head(s) = NoRef THEN Distinct(Tail(s), seen)
    ELSE <<Head(s)>> \o Distinct(Tail(s), seen \cup {Head(s)})

Live(list, cs) == Distinct(list \o [c \in Slots |-> cs[c].ref], {})

\* References are opaque: an object nothing refers to any more is dropped, and the
\* live ones are renumbered in order of first use, so that two heaps that differ
\* only in the numbering are one state.
Renumber(r, live) == IF r = NoRef THEN NoRef ELSE CHOOSE i \in 1..Len(live) : live[i] = r

Collect(h, list, cs) ==
    LET live == Live(list, cs)
    IN  [heap  |-> [r \in Refs |-> IF r <= Len(live) THEN h[live[r]] ELSE NoRec],
         todos |-> [i \in 1..Len(list) |-> Renumber(list[i], live)],
         calls |-> [c \in Slots |-> [cs[c] EXCEPT !.ref = Renumber(cs[c].ref, live)]]]

\* the objects a .map() over `vals` creates, and the array of them
NewObjects(h, vals) ==
    LET rs == Smallest(FreeRefs(h), Len(vals))
    IN  [heap |-> [r \in Refs |-> IF \E i \in 1..Len(vals) : rs[i] = r
                                  THEN vals[CHOOSE i \in 1..Len(vals) : rs[i] = r]
                                  ELSE h[r]],
         list |-> rs]

-----------------------------------------------------------------------------
(* Array helpers of main.js *)

Unshift(list, r) == <<r>> \o list

\* Array.prototype.findIndex on t.id === id; 0 stands for -1
FindIndex(list, h, id) ==
    IF \E i \in 1..Len(list) : h[list[i]].id = id
    THEN CHOOSE i \in 1..Len(list) :
            /\ h[list[i]].id = id
            /\ \A j \in 1..(i - 1) : h[list[j]].id # id
    ELSE 0

FilterNotId(list, h, id) == SelectSeq(list, LAMBDA r : h[r].id # id)

FilterNotCompleted(list, h) == SelectSeq(list, LAMBDA r : ~h[r].completed)

RECURSIVE CompletedIds(_, _)
CompletedIds(list, h) ==
    IF list = <<>> THEN <<>>
    ELSE (IF h[Head(list)].completed THEN <<h[Head(list)].id>> ELSE <<>>)
         \o CompletedIds(Tail(list), h)

\* t.f || dflt for a field that may be missing from the record
OrElse(t, f, dflt) == IF f \in DOMAIN t THEN t[f] ELSE dflt

\* a normalization that filled in no default for a missing priority:
\* C13 must tell it from the code
NormalizeWithoutPriority(t, clock) ==
    [id        |-> t.id,
     title     |-> OrElse(t, "title", ""),
     priority  |-> OrElse(t, "priority", ""),
     completed |-> OrElse(t, "completed", FALSE),
     selected  |-> OrElse(t, "selected", FALSE),
     createdAt |-> OrElse(t, "createdAt", clock),
     updatedAt |-> OrElse(t, "updatedAt", OrElse(t, "createdAt", clock))]

Normalize(t, clock) ==
    [id        |-> t.id,
     title     |-> OrElse(t, "title", ""),
     priority  |-> OrElse(t, "priority", "medium"),
     completed |-> OrElse(t, "completed", FALSE),
     selected  |-> OrElse(t, "selected", FALSE),
     createdAt |-> OrElse(t, "createdAt", clock),
     updatedAt |-> OrElse(t, "updatedAt", OrElse(t, "createdAt", clock))]

\* todos.sort((a, b) => new Date(b.createdAt) - new Date(a.createdAt)): stable
RECURSIVE InsertDesc(_, _)
InsertDesc(x, s) ==
    IF s = <<>> THEN <<x>>
    ELSE IF Head(s).createdAt >= x.createdAt THEN <<Head(s)>> \o InsertDesc(x, Tail(s))
    ELSE <<x>> \o s

RECURSIVE SortDesc(_)
SortDesc(s) ==
    IF s = <<>> THEN <<>>
    ELSE InsertDesc(s[Len(s)], SortDesc(SubSeq(s, 1, Len(s) - 1)))

RECURSIVE MapNormalize(_, _)
MapNormalize(s, clock) ==
    IF s = <<>> THEN <<>>
    ELSE <<Normalize(Head(s), clock)>> \o MapNormalize(Tail(s), clock)

\* (all || []).find((r) => r.key === key), and rec ? rec.value : null
FindSetting(all, key) ==
    IF \E n \in 1..Len(all) : all[n].key = key
    THEN all[CHOOSE n \in 1..Len(all) :
                /\ all[n].key = key
                /\ \A m \in 1..(n - 1) : all[m].key # key].value
    ELSE null

\* value || "light"
OrLight(value) == IF value \in {null, ""} THEN "light" ELSE value

\* the effective theme of setTheme
Effective(themeName, dark) ==
    IF themeName = "auto" THEN (IF dark THEN "dark" ELSE "light") ELSE themeName

\* a fallback that wrote nothing: C18 must tell it from the code
SetItemDropped(l, key, value, throws) == l

\* try { localStorage.setItem("theme", themeName) } catch {}: the item is set unless
\* the store throws
SetItem(l, key, value, throws) == IF throws THEN l ELSE [l EXCEPT ![key] = value]

\* a fallback that read nothing: C19 must tell it from the code
GetItemSkipped(l, key, throws) == null

\* try { value = localStorage.getItem("theme") } catch {}: value stays null when the
\* store throws
GetItem(l, key, throws) == IF throws THEN null ELSE l[key]

\* try { localStorage.clear() } catch (e) {}
Clear(l, throws) == IF throws THEN l ELSE [k \in DOMAIN l |-> null]

-----------------------------------------------------------------------------
(* The store adapter *)

\* Every adapter operation runs in a transaction of its own on one object store
\* (st).  Transactions on different stores have no record in common; the model
\* serves them in creation order as it does those on one store.
GetAllTx(c, storeName) ==
    [call |-> c, st |-> storeName, kind |-> "getAll", key |-> "", val |-> NoRec, done |-> FALSE]

\* the key of a value is taken from its key path: "id" in todos, "key" in settings
PutTx(c, storeName, value) ==
    [call |-> c, st |-> storeName, kind |-> "put",
     key |-> IF storeName = "todos" THEN value.id ELSE value.key, val |-> value, done |-> FALSE]

DeleteTx(c, storeName, key) ==
    [call |-> c, st |-> storeName, kind |-> "delete", key |-> key, val |-> NoRec, done |-> FALSE]

ClearTx(c, storeName) ==
    [call |-> c, st |-> storeName, kind |-> "clear", key |-> "", val |-> NoRec, done |-> FALSE]

\* the adapter operation a call is about to await
TxFor(c, call, h) ==
    CASE call.op \in {"add", "update"} -> PutTx(c, "todos", h[call.ref])
      [] call.op = "delete"            -> DeleteTx(c, "todos", call.id)
      [] call.op = "clearCompleted"    -> DeleteTx(c, "todos", Head(call.toDelete))
      [] call.op = "load"              -> GetAllTx(c, "todos")
      [] call.op = "clearAll"          -> ClearTx(c, Head(call.stores))
      [] call.op \in {"setSetting", "setTheme"} ->
             PutTx(c, "settings", [key |-> call.key, value |-> call.value])
      [] call.op \in {"getSetting", "getTheme"} -> GetAllTx(c, "settings")

\* what a committed transaction leaves in its store
ApplyTx(tx, s) ==
    CASE tx.kind = "put"    -> [s EXCEPT ![tx.key] = tx.val]
      [] tx.kind = "delete" -> [s EXCEPT ![tx.key] = NoRec]
      [] tx.kind = "clear"  -> [k \in DOMAIN s |-> NoRec]
      [] tx.kind = "getAll" -> s

MarkDone(q) == [q EXCEPT ![1].done = TRUE]

\* openDB() has resolved for `call`: an adapter operation creates its transaction,
\* initDB has nothing more to do
Opened(c, call, h) ==
    IF call.op = "init"
    THEN [call |-> [call EXCEPT !.pc = "resolved"], txq |-> txq]
    ELSE [call |-> [call EXCEPT !.pc = "waiting"], txq |-> Append(txq, TxFor(c, call, h))]

\* openDB().then(database => ...): with a cached handle the transaction is created
\* in the same task; otherwise an open request is issued and the call waits for it
openDB(c, call, h) ==
    IF db
    THEN [calls |-> [calls EXCEPT ![c] = Opened(c, call, h).call],
          txq   |-> Opened(c, call, h).txq,
          openq |-> openq]
    ELSE [calls |-> [calls EXCEPT ![c] = [call EXCEPT !.pc = "opening"]],
          txq   |-> txq,
          openq |-> Append(openq, c)]

-----------------------------------------------------------------------------
(* Initial state: the module has just been evaluated *)

Loaded ==
    /\ now = 0
    /\ db = FALSE
    /\ openq = <<>>
    /\ store = [id \in Ids |-> NoRec]
    /\ settings = [k \in Keys |-> NoRec]
    /\ txq = <<>>
    /\ heap = [r \in Refs |-> NoRec]
    /\ todos = <<>>
    /\ calls = [c \in Slots |-> IdleCall]
    /\ before = [c \in Slots |-> NoRec]
    /\ local = [k \in Keys |-> null]
    /\ applied = null

\* script.js has been evaluated and nothing has called loadUI
NotLoaded ==
    /\ uiModule = FALSE
    /\ initPromise = null
    /\ loader = FALSE
    /\ loading = [t \in Triggers |-> "idle"]
    /\ imports = 0
    /\ inits = 0

\* parseMarkdown has not been called
NoText ==
    /\ md = <<>>
    /\ pos = 0
    /\ lines = <<>>
    /\ buffer = <<>>
    /\ output = <<>>

Init ==
    /\ Loaded
    /\ prefersDark = FALSE
    /\ NoText
    /\ NotLoaded

InFlight(c) == calls[c].pc \in {"opening", "waiting"}

\* calls in flight that may still put an object on the list
Growing == Cardinality({c \in Slots : InFlight(c) /\ calls[c].op \in {"add", "update"}})

ViewOf(list, h) == [i \in 1..Len(list) |-> h[list[i]]]

\* what the caller of a watched call (w) notes down when it makes the call
Seen(w, view, arg) == IF w THEN [list |-> view, arg |-> arg] ELSE NoRec

\* a task ends with the calls at `cs`, the heap `h` and the list `list`
Settle(cs, h, list) ==
    LET kept == Collect(h, list, cs)
    IN  /\ calls' = kept.calls
        /\ todos' = kept.todos
        /\ heap' = kept.heap

\* call c moves on to `call`
With(c, call) == [calls EXCEPT ![c] = call]

\* a call reaches its first await: `h` is the heap the call leaves behind, `seen` what
\* its caller noted down
Await(c, call, h, seen) ==
    LET o == openDB(c, call, h)
    IN  /\ txq' = o.txq
        /\ openq' = o.openq
        /\ Settle(o.calls, h, todos)
        /\ before' = [before EXCEPT ![c] = seen]
        /\ UNCHANGED <<now, db, store, settings, theme, formatter, bootstrap>>

Resolved(call) == [call EXCEPT !.pc = "resolved", !.ref = NoRef, !.toDelete = <<>>]

Rejected(call) == [call EXCEPT !.pc = "rejected", !.ref = NoRef, !.toDelete = <<>>]

\* a call throws on its argument before its first await: the caller still holds the
\* object it passed
Refuse(c, call, h, seen) ==
    /\ Settle(With(c, [call EXCEPT !.pc = "rejected", !.err = {"argument"}]), h, todos)
    /\ before' = [before EXCEPT ![c] = seen]
    /\ UNCHANGED <<now, db, openq, store, txq, settings, theme, formatter, bootstrap>>

-----------------------------------------------------------------------------
(* The calls, up to their first await *)

Tick ==
    /\ now < MaxClock
    /\ now' = now + 1
    /\ UNCHANGED <<db, openq, store, txq, heap, todos, calls, before, settings, theme, formatter, bootstrap>>

\* addTodo(todo) with a fresh object
addTodo(c, item, w) ==
    /\ calls[c].pc = "idle"
    /\ Len(todos) + Growing < MaxLen
    /\ LET r == Smallest(FreeRefs(heap), 1)[1]
           call == [IdleCall EXCEPT !.op = "add", !.ref = r, !.id = item.id]
       IN  IF item.id = ""
           THEN Refuse(c, call, [heap EXCEPT ![r] = item], Seen(w, ListView, item))
           ELSE Await(c, call, [heap EXCEPT ![r] = item], Seen(w, ListView, item))

\* an updateTodo that stamped its argument before looking at the id: C16 must tell it
\* from the code
updateTodoStampingFirst(c, r, h, w) ==
    /\ calls[c].pc = "idle"
    /\ LET call == [IdleCall EXCEPT !.op = "update", !.ref = r, !.id = h[r].id]
           stamped == [h EXCEPT ![r].updatedAt = now]
       IN  IF h[r].id = ""
           THEN Refuse(c, call, stamped, Seen(w, ViewOf(todos, h), h[r]))
           ELSE Await(c, call, stamped, Seen(w, ViewOf(todos, h), h[r]))

\* updateTodo(todo): `h` is the heap when the call is made, r the object passed
updateTodo(c, r, h, w) ==
    /\ calls[c].pc = "idle"
    /\ LET call == [IdleCall EXCEPT !.op = "update", !.ref = r, !.id = h[r].id]
       IN  IF h[r].id = ""
           THEN Refuse(c, call, h, Seen(w, ViewOf(todos, h), h[r]))
           ELSE Await(c, call, [h EXCEPT ![r].updatedAt = now],
                      Seen(w, ViewOf(todos, h), h[r]))

\* the caller edits an object of list() in place and passes it to updateTodo
\* (ui.js: todo.completed = !todo.completed; await updateTodo(todo))
UpdateInPlace(c, i, title, completed, w) ==
    /\ i \in 1..Len(todos)
    /\ updateTodo(c, todos[i],
                  [heap EXCEPT ![todos[i]].title = title, ![todos[i]].completed = completed], w)

\* the caller passes updateTodo an object of its own
UpdateCopy(c, item, w) ==
    /\ Len(todos) + Growing < MaxLen
    /\ LET r == Smallest(FreeRefs(heap), 1)[1]
       IN  updateTodo(c, r, [heap EXCEPT ![r] = item], w)

deleteTodo(c, id, w) ==
    /\ calls[c].pc = "idle"
    /\ LET call == [IdleCall EXCEPT !.op = "delete", !.id = id]
       IN  IF id = ""
           THEN Refuse(c, call, heap, Seen(w, ListView, NoRec))
           ELSE Await(c, call, heap, Seen(w, ListView, NoRec))

loadTodos(c, w) ==
    /\ calls[c].pc = "idle"
    /\ Await(c, [IdleCall EXCEPT !.op = "load"], heap, Seen(w, ListView, NoRec))

\* clearCompleted(): with nothing to delete the loop body never runs and the call
\* finishes without a storage operation
clearCompleted(c, w) ==
    /\ calls[c].pc = "idle"
    /\ LET toDelete == CompletedIds(todos, heap)
           call == [IdleCall EXCEPT !.op = "clearCompleted", !.toDelete = toDelete]
       IN  IF toDelete = <<>>
           THEN /\ Settle(With(c, Resolved(call)), heap, FilterNotCompleted(todos, heap))
                /\ before' = [before EXCEPT ![c] = Seen(w, ListView, NoRec)]
                /\ UNCHANGED <<now, db, openq, store, txq, settings, theme, formatter, bootstrap>>
           ELSE Await(c, call, heap, Seen(w, ListView, NoRec))

initDB(c) ==
    /\ calls[c].pc = "idle"
    /\ Await(c, [IdleCall EXCEPT !.op = "init"], heap, NoRec)

clearAllData(c, w) ==
    /\ calls[c].pc = "idle"
    /\ Await(c, [IdleCall EXCEPT !.op = "clearAll", !.stores = <<"todos", "settings">>],
             heap, Seen(w, ListView, NoRec))

\* exportTodosAsJSON(ids): an async function without an await, settled when it
\* returns; the JSON text is an array with the items in the order chosen
exportTodosAsJSON(c, ids) ==
    /\ calls[c].pc = "idle"
    /\ LET items == IF ids # null /\ Len(ids) # 0
                    THEN SelectSeq(ListView, LAMBDA t : t.id \in Range(ids))
                    ELSE ListView
           call == [IdleCall EXCEPT !.op = "export", !.ids = ids, !.ret = items]
       IN  calls' = With(c, Resolved(call))
    /\ UNCHANGED <<now, db, openq, store, txq, heap, todos, before, settings, theme, formatter, bootstrap>>

setSetting(c, key, value) ==
    /\ calls[c].pc = "idle"
    /\ LET call == [IdleCall EXCEPT !.op = "setSetting", !.key = key, !.value = value]
       IN  IF key = ""
           THEN Refuse(c, call, heap, NoRec)
           ELSE Await(c, call, heap, NoRec)

\* getSetting(key): without a key the call returns null and starts no storage
\* operation
getSetting(c, key) ==
    /\ calls[c].pc = "idle"
    /\ LET call == [IdleCall EXCEPT !.op = "getSetting", !.key = key]
       IN  IF key = ""
           THEN /\ calls' = With(c, Resolved(call))
                /\ UNCHANGED <<now, db, openq, store, txq, heap, todos, before,
                               settings, theme, formatter, bootstrap>>
           ELSE Await(c, call, heap, NoRec)

\* setTheme(themeName) up to `await setSetting("theme", themeName)`
setTheme(c, themeName) ==
    /\ calls[c].pc = "idle"
    /\ Await(c, [IdleCall EXCEPT !.op = "setTheme", !.key = "theme", !.value = themeName],
             heap, NoRec)

\* getTheme() up to `await getSetting("theme")`
getTheme(c) ==
    /\ calls[c].pc = "idle"
    /\ Await(c, [IdleCall EXCEPT !.op = "getTheme", !.key = "theme"], heap, NoRec)

-----------------------------------------------------------------------------
(* Events of the database and the code that resumes on them *)

\* req.onsuccess of indexedDB.open: the handle is cached and the caller's
\* transaction is created
OpenSuccess ==
    /\ openq # <<>>
    /\ LET c == Head(openq)
       IN  /\ db' = TRUE
           /\ openq' = Tail(openq)
           /\ calls' = [calls EXCEPT ![c] = Opened(c, calls[c], heap).call]
           /\ txq' = Opened(c, calls[c], heap).txq
    /\ UNCHANGED <<now, store, heap, todos, before, settings, theme, formatter, bootstrap>>

\* the awaited adapter promise rejects: loadTodos catches and empties the list,
\* every other function lets the error reach its caller
\* a loadTodos whose catch left the list as it was: C12 must tell it from the code
StorageFailedKeepingList(c) ==
    LET call == [calls[c] EXCEPT !.err = {"storage"}]
    IN  /\ Settle(With(c, IF call.op = "load" THEN [Resolved(call) EXCEPT !.ret = <<>>]
                                              ELSE Rejected(call)),
                  heap, todos)
        /\ UNCHANGED <<local, applied>>

\* setTheme and getTheme catch and turn to localStorage, which may throw in its turn
SecondaryErr(throws) == IF throws THEN {"storage", "local"} ELSE {"storage"}

StorageFailed(c) ==
    LET call == [calls[c] EXCEPT !.err = {"storage"}]
    IN  CASE call.op = "load" ->
               /\ Settle(With(c, [Resolved(call) EXCEPT !.ret = <<>>]), heap, <<>>)
               /\ UNCHANGED <<local, applied>>
          [] call.op = "setTheme" ->
               \E throws \in BOOLEAN :
                   /\ local' = SetItem(local, "theme", call.value, throws)
                   /\ applied' = Effective(call.value, prefersDark)
                   /\ Settle(With(c, [Resolved(call) EXCEPT
                                         !.err = SecondaryErr(throws),
                                         !.ret = Effective(call.value, prefersDark)]),
                             heap, todos)
          [] call.op = "getTheme" ->
               \E throws \in BOOLEAN :
                   /\ Settle(With(c, [Resolved(call) EXCEPT
                                         !.err = SecondaryErr(throws),
                                         !.ret = OrLight(GetItem(local, "theme", throws))]),
                             heap, todos)
                   /\ UNCHANGED <<local, applied>>
          [] OTHER ->
               /\ Settle(With(c, Rejected(call)), heap, todos)
               /\ UNCHANGED <<local, applied>>

\* req.onerror of indexedDB.open
OpenError ==
    /\ openq # <<>>
    /\ openq' = Tail(openq)
    /\ StorageFailed(Head(openq))
    /\ UNCHANGED <<now, db, store, txq, before, settings, prefersDark, formatter, bootstrap>>

\* the request of the active transaction can be served
Active(c, op) ==
    /\ txq # <<>>
    /\ ~Head(txq).done
    /\ Head(txq).call = c
    /\ calls[c].op = op

\* req.onerror of the active transaction's request: the transaction aborts
RequestError ==
    /\ txq # <<>>
    /\ ~Head(txq).done
    /\ txq' = Tail(txq)
    /\ StorageFailed(Head(txq).call)
    /\ UNCHANGED <<now, db, openq, store, before, settings, prefersDark, formatter, bootstrap>>

\* addTodo after `await putToStore`
addTodoResumed(c) ==
    /\ Active(c, "add")
    /\ txq' = MarkDone(txq)
    /\ Settle(With(c, Resolved(calls[c])), heap, Unshift(todos, calls[c].ref))
    /\ UNCHANGED <<now, db, openq, store, before, settings, theme, formatter, bootstrap>>

\* an updateTodo that put its item at the front whether or not the list holds the
\* id: C23 must tell it from the code
updateTodoResumedUnshifting(c) ==
    /\ Active(c, "update")
    /\ txq' = MarkDone(txq)
    /\ Settle(With(c, Resolved(calls[c])), heap,
              Unshift(FilterNotId(todos, heap, heap[calls[c].ref].id), calls[c].ref))
    /\ UNCHANGED <<now, db, openq, store, before, settings, theme, formatter, bootstrap>>

\* updateTodo after `await putToStore`
updateTodoResumed(c) ==
    /\ Active(c, "update")
    /\ txq' = MarkDone(txq)
    /\ LET todo == calls[c].ref
           idx == FindIndex(todos, heap, heap[todo].id)
       IN  Settle(With(c, Resolved(calls[c])), heap,
                  IF idx > 0 THEN [todos EXCEPT ![idx] = todo] ELSE Unshift(todos, todo))
    /\ UNCHANGED <<now, db, openq, store, before, settings, theme, formatter, bootstrap>>

\* deleteTodo after `await deleteFromStore`
deleteTodoResumed(c) ==
    /\ Active(c, "delete")
    /\ txq' = MarkDone(txq)
    /\ Settle(With(c, Resolved(calls[c])), heap, FilterNotId(todos, heap, calls[c].id))
    /\ UNCHANGED <<now, db, openq, store, before, settings, theme, formatter, bootstrap>>

\* loadTodos after `await getAllFromStore`: every earlier transaction has finished,
\* so the request reads the committed store
loadTodosResumed(c) ==
    /\ Active(c, "load")
    /\ txq' = MarkDone(txq)
    /\ LET cs == [calls EXCEPT ![c] = Resolved(calls[c])]
           made == NewObjects([r \in Refs |-> IF \E d \in Slots : cs[d].ref = r
                                               THEN heap[r] ELSE NoRec],
                              SortDesc(MapNormalize(StoreRecords(store), now)))
       IN  Settle([cs EXCEPT ![c].ret = ViewOf(made.list, made.heap)], made.heap, made.list)
    /\ UNCHANGED <<now, db, openq, store, before, settings, theme, formatter, bootstrap>>

\* clearCompleted after one `await deleteFromStore`: the next delete, or the filter
clearCompletedResumed(c) ==
    /\ Active(c, "clearCompleted")
    /\ LET rest == Tail(calls[c].toDelete)
       IN  IF rest # <<>>
           THEN /\ txq' = Append(MarkDone(txq), DeleteTx(c, "todos", Head(rest)))
                /\ Settle(With(c, [calls[c] EXCEPT !.toDelete = rest]), heap, todos)
           ELSE /\ txq' = MarkDone(txq)
                /\ Settle(With(c, Resolved(calls[c])), heap, FilterNotCompleted(todos, heap))
    /\ UNCHANGED <<now, db, openq, store, before, settings, theme, formatter, bootstrap>>

\* clearAllData after one `await clearStore`: the next store, or the list and
\* localStorage
clearAllDataResumed(c) ==
    /\ Active(c, "clearAll")
    /\ LET rest == Tail(calls[c].stores)
       IN  IF rest # <<>>
           THEN /\ txq' = Append(MarkDone(txq), ClearTx(c, Head(rest)))
                /\ Settle(With(c, [calls[c] EXCEPT !.stores = rest]), heap, todos)
                /\ local' = local
           ELSE /\ txq' = MarkDone(txq)
                /\ Settle(With(c, [Resolved(calls[c]) EXCEPT !.stores = rest]), heap, <<>>)
                /\ \E throws \in BOOLEAN : local' = Clear(local, throws)
    /\ UNCHANGED <<now, db, openq, store, before, settings, applied, prefersDark, formatter, bootstrap>>

\* setSetting after `await putToStore`: returns the payload
setSettingResumed(c) ==
    /\ Active(c, "setSetting")
    /\ txq' = MarkDone(txq)
    /\ Settle(With(c, [Resolved(calls[c]) EXCEPT !.ret = Head(txq).val]), heap, todos)
    /\ UNCHANGED <<now, db, openq, store, before, settings, theme, formatter, bootstrap>>

\* getSetting after `await getAllFromStore`
getSettingResumed(c) ==
    /\ Active(c, "getSetting")
    /\ txq' = MarkDone(txq)
    /\ LET all == RecordsFrom(settings, KeyOrder)
       IN  Settle(With(c, [Resolved(calls[c]) EXCEPT !.ret = FindSetting(all, calls[c].key)]),
                  heap, todos)
    /\ UNCHANGED <<now, db, openq, store, before, settings, theme, formatter, bootstrap>>

\* setTheme after `await setSetting`: the effective theme is applied and returned
setThemeResumed(c) ==
    /\ Active(c, "setTheme")
    /\ txq' = MarkDone(txq)
    /\ LET effective == Effective(calls[c].value, prefersDark)
       IN  /\ applied' = effective
           /\ Settle(With(c, [Resolved(calls[c]) EXCEPT !.ret = effective]), heap, todos)
    /\ UNCHANGED <<now, db, openq, store, before, settings, local, prefersDark, formatter, bootstrap>>

\* getTheme after `await getSetting`
getThemeResumed(c) ==
    /\ Active(c, "getTheme")
    /\ txq' = MarkDone(txq)
    /\ LET value == FindSetting(RecordsFrom(settings, KeyOrder), "theme")
       IN  Settle(With(c, [Resolved(calls[c]) EXCEPT !.ret = OrLight(value)]), heap, todos)
    /\ UNCHANGED <<now, db, openq, store, before, settings, theme, formatter, bootstrap>>

\* tx.oncomplete: the transaction whose request succeeded commits
TxComplete ==
    /\ txq # <<>>
    /\ Head(txq).done
    /\ IF Head(txq).st = "todos"
       THEN store' = ApplyTx(Head(txq), store) /\ settings' = settings
       ELSE settings' = ApplyTx(Head(txq), settings) /\ store' = store
    /\ txq' = Tail(txq)
    /\ UNCHANGED <<now, db, openq, heap, todos, calls, before, theme, formatter, bootstrap>>

\* the commit of a read-write transaction fails after its request succeeded
\* (quota, disk): the transaction aborts and its write is rolled back
TxAbort ==
    /\ txq # <<>>
    /\ Head(txq).done
    /\ Head(txq).kind # "getAll"
    /\ txq' = Tail(txq)
    /\ UNCHANGED <<now, db, openq, store, heap, todos, calls, before, settings, theme, formatter, bootstrap>>

\* the caller has seen the outcome of its call
Return(c) ==
    /\ calls[c].pc \in {"resolved", "rejected"}
    /\ calls' = [calls EXCEPT ![c] = IdleCall]
    /\ before' = [before EXCEPT ![c] = NoRec]
    /\ UNCHANGED <<now, db, openq, store, txq, heap, todos, settings, theme, formatter, bootstrap>>

-----------------------------------------------------------------------------
(* The handlers of ui.js *)

\* A handler runs in the slot of the call it awaits.  When the call resolves, the
\* handler goes on in the same task, up to its next await: the resumption of the
\* call and this part of the handler are one action.  What the handlers draw on the
\* page is not kept.

\* the change handler of the selection box of entry i: the flag is set on the object
\* of the list and not written to the store; the user selects while no call is in
\* flight
select(i) ==
    /\ i \in 1..Len(todos)
    /\ \A c \in Slots : ~InFlight(c)
    /\ heap' = [heap EXCEPT ![todos[i]].selected = ~@]
    /\ UNCHANGED <<now, db, openq, store, txq, todos, calls, before, settings, theme,
                   formatter, bootstrap>>

\* updateTodo(todo) called by a handler: `h` is the heap with the handler's changes
\* to the object r, `seen` what list() showed before the user acted
updateTodoFor(handler, c, r, h, seen) ==
    LET call == [IdleCall EXCEPT !.op = "update", !.ref = r, !.id = h[r].id,
                                 !.handler = handler]
    IN  IF h[r].id = ""
        THEN Refuse(c, call, h, seen)
        ELSE Await(c, call, [h EXCEPT ![r].updatedAt = now], seen)

\* the click handler of the complete toggle of entry i, up to `await updateTodo`
completeToggle(c, i) ==
    /\ calls[c].pc = "idle"
    /\ i \in 1..Len(todos)
    /\ updateTodoFor("completeToggle", c, todos[i],
                     [heap EXCEPT ![todos[i]].completed = ~@],
                     Seen(TRUE, ListView, heap[todos[i]]))

\* handleSaveEdit for the entry with the id of the edit dialog, up to
\* `await updateTodo`: Object.assign(todo, updates) with the title (priority,
\* description and notes go the way of the title) and updatedAt
handleSaveEdit(c, todoId, title) ==
    /\ calls[c].pc = "idle"
    /\ title # ""
    /\ FindIndex(todos, heap, todoId) > 0
    /\ LET todo == todos[FindIndex(todos, heap, todoId)]
       IN  updateTodoFor("handleSaveEdit", c, todo,
                         [heap EXCEPT ![todo].title = title, ![todo].updatedAt = now],
                         Seen(TRUE, ListView, heap[todo]))

\* the list after updateTodo has put its item in: todos[idx] = todo, or unshift
PutIn(list, h, todo) ==
    LET idx == FindIndex(list, h, h[todo].id)
    IN  IF idx > 0 THEN [list EXCEPT ![idx] = todo] ELSE Unshift(list, todo)

\* both handlers after `await updateTodo(todo)`, up to `await loadTodos()`: the
\* database is open, so the read is requested in the same task
ReloadAfterUpdate(c) ==
    /\ Active(c, "update")
    /\ calls[c].handler \in {"completeToggle", "handleSaveEdit"}
    /\ txq' = Append(MarkDone(txq), GetAllTx(c, "todos"))
    /\ Settle(With(c, [IdleCall EXCEPT !.op = "load", !.pc = "waiting",
                                       !.handler = calls[c].handler]),
              heap, PutIn(todos, heap, calls[c].ref))
    /\ UNCHANGED <<now, db, openq, store, before, settings, theme, formatter, bootstrap>>

\* the loop of handleCompleteSelected over the selected entries of the list, from
\* its start or from where it left off, up to the next `await updateTodo(t)`: an
\* entry that is completed is deselected and passed by; the first one that is not
\* is completed and left selected until its update has resolved.  ref is the object
\* to update, NoRef when the loop has ended.
RECURSIVE CompleteNext(_, _)
CompleteNext(list, h) ==
    IF list = <<>> THEN [heap |-> h, ref |-> NoRef]
    ELSE LET t == Head(list)
         IN  IF ~h[t].selected THEN CompleteNext(Tail(list), h)
             ELSE IF h[t].completed
             THEN CompleteNext(Tail(list), [h EXCEPT ![t].selected = FALSE])
             ELSE [heap |-> [h EXCEPT ![t].completed = TRUE], ref |-> t]

\* handleCompleteSelected up to its first await: the update of the first selected
\* entry that is not completed, or the reload if all of them are
handleCompleteSelected(c) ==
    /\ calls[c].pc = "idle"
    /\ \E i \in 1..Len(todos) : heap[todos[i]].selected
    /\ LET next == CompleteNext(todos, heap)
           seen == Seen(TRUE, ListView, NoRec)
       IN  IF next.ref # NoRef
           THEN updateTodoFor("handleCompleteSelected", c, next.ref, next.heap, seen)
           ELSE Await(c, [IdleCall EXCEPT !.op = "load",
                                          !.handler = "handleCompleteSelected"],
                      next.heap, seen)

\* handleCompleteSelected after `await updateTodo(t)`: t.selected = false, then the
\* rest of the loop up to the next update, or `await loadTodos()`
handleCompleteSelectedResumed(c) ==
    /\ Active(c, "update")
    /\ calls[c].handler = "handleCompleteSelected"
    /\ LET t == calls[c].ref
           list == PutIn(todos, heap, t)
           next == CompleteNext(list, [heap EXCEPT ![t].selected = FALSE])
           stamped == [next.heap EXCEPT ![next.ref].updatedAt = now]
       IN  IF next.ref # NoRef
           THEN /\ txq' = Append(MarkDone(txq), PutTx(c, "todos", stamped[next.ref]))
                /\ Settle(With(c, [calls[c] EXCEPT !.ref = next.ref,
                                                   !.id = stamped[next.ref].id]),
                          stamped, list)
           ELSE /\ txq' = Append(MarkDone(txq), GetAllTx(c, "todos"))
                /\ Settle(With(c, [IdleCall EXCEPT !.op = "load", !.pc = "waiting",
                                                   !.handler = calls[c].handler]),
                          next.heap, list)
    /\ UNCHANGED <<now, db, openq, store, before, settings, theme, formatter, bootstrap>>

-----------------------------------------------------------------------------
(* Lazy loading of the page (script.js) and its initialization (ui.js) *)

\* What the promise returned by getTheme() becomes where a string is wanted: in
\* localStorage.setItem and in setAttribute.  A promise cannot be cloned into the
\* database.
ObjectPromise == "[object Promise]"

Cloneable(value) == value # ObjectPromise

\* the calls of loadUI that await initPromise go on when it settles
Settled(outcome) ==
    [t \in Triggers |-> IF loading[t] = "awaiting" THEN outcome ELSE loading[t]]

\* loadUI() called by trigger t: a click on one of the buttons, the intersection
\* observer or App.start
loadUI(t) ==
    /\ loading[t] = "idle"
    /\ IF uiModule
       THEN /\ loading' = [loading EXCEPT ![t] = "returned"]
            /\ UNCHANGED <<initPromise, loader, imports>>
       ELSE IF initPromise = null
       THEN /\ loader' = TRUE
            /\ imports' = imports + 1
            /\ initPromise' = "pending"
            /\ loading' = [loading EXCEPT ![t] = "awaiting"]
       ELSE /\ loading' = [loading EXCEPT ![t] = CASE initPromise = "pending" -> "awaiting"
                                                    [] initPromise = "rejected" -> "thrown"
                                                    [] OTHER -> "returned"]
            /\ UNCHANGED <<initPromise, loader, imports>>
    /\ UNCHANGED <<repository, formatter, uiModule, inits>>

\* import("./ui.js") is fulfilled: uiModule = mod, and initUI() runs up to
\* `await initDB()`, or up to `await loadTodos()` if the database is open
ImportSuccess(c) ==
    /\ initPromise = "pending"
    /\ ~uiModule
    /\ calls[c].pc = "idle"
    /\ uiModule' = TRUE
    /\ inits' = inits + 1
    /\ IF db
       THEN /\ txq' = Append(txq, GetAllTx(c, "todos"))
            /\ openq' = openq
            /\ calls' = With(c, [IdleCall EXCEPT !.op = "load", !.pc = "waiting",
                                                 !.handler = "initUI"])
       ELSE /\ txq' = txq
            /\ openq' = Append(openq, c)
            /\ calls' = With(c, [IdleCall EXCEPT !.op = "init", !.pc = "opening",
                                                 !.handler = "initUI"])
    /\ UNCHANGED <<now, db, store, heap, todos, before, settings, theme, formatter,
                   initPromise, loader, loading, imports>>

\* import("./ui.js") is rejected: .finally hides the overlay, initPromise is
\* rejected and stays so
ImportError ==
    /\ initPromise = "pending"
    /\ ~uiModule
    /\ initPromise' = "rejected"
    /\ loader' = FALSE
    /\ loading' = Settled("thrown")
    /\ UNCHANGED <<repository, formatter, uiModule, imports, inits>>

\* initUI after `await initDB()`, up to `await loadTodos()`
initUIOpened(c) ==
    /\ openq # <<>>
    /\ Head(openq) = c
    /\ calls[c].handler = "initUI"
    /\ db' = TRUE
    /\ openq' = Tail(openq)
    /\ txq' = Append(txq, GetAllTx(c, "todos"))
    /\ calls' = With(c, [calls[c] EXCEPT !.op = "load", !.pc = "waiting"])
    /\ UNCHANGED <<now, store, heap, todos, before, settings, theme, formatter, bootstrap>>

\* initUI from applyInitialTheme() to its end, and what its end sets off: with the
\* calls `cs`, the heap `h`, the list, the transactions `q` and the open requests `oq`
\* that initDB and loadTodos have left.  applyInitialTheme calls getTheme() in slot
\* c and passes the promise it returns to setTheme in slot d.  With the database
\* open, setTheme runs to its end in this task: store.put throws on the promise,
\* setSetting rejects, the name goes to localStorage and to the data-theme
\* attribute.  Then initUI returns, .finally hides the overlay, initPromise is
\* fulfilled and the calls of loadUI that await it return.
Initialized(c, d, cs, h, list, q, oq, open) ==
    LET reading == [IdleCall EXCEPT !.op = "getTheme", !.key = "theme",
                                    !.pc = IF open THEN "waiting" ELSE "opening",
                                    !.handler = "applyInitialTheme"]
        writing == [IdleCall EXCEPT !.op = "setTheme", !.key = "theme",
                                    !.value = ObjectPromise, !.pc = "opening",
                                    !.handler = "applyInitialTheme"]
        effective == Effective(ObjectPromise, prefersDark)
    IN  /\ cs[d].pc = "idle"
        /\ IF open
           THEN \E throws \in BOOLEAN :
                   /\ txq' = Append(q, GetAllTx(c, "settings"))
                   /\ openq' = oq
                   /\ local' = SetItem(local, "theme", ObjectPromise, throws)
                   /\ applied' = effective
                   /\ Settle([cs EXCEPT ![c] = reading,
                                        ![d] = [Resolved(writing) EXCEPT
                                                   !.err = SecondaryErr(throws),
                                                   !.ret = effective]],
                             h, list)
           ELSE /\ txq' = q
                /\ openq' = oq \o <<c, d>>
                /\ UNCHANGED <<local, applied>>
                /\ Settle([cs EXCEPT ![c] = reading, ![d] = writing], h, list)
        /\ initPromise' = "fulfilled"
        /\ loader' = FALSE
        /\ loading' = Settled("returned")
        /\ UNCHANGED <<uiModule, imports, inits>>

\* initUI when `await initDB()` throws: the error is caught and logged
initUIOpenFailed(c, d) ==
    /\ openq # <<>>
    /\ Head(openq) = c
    /\ calls[c].handler = "initUI"
    /\ Initialized(c, d, calls, heap, todos, txq, Tail(openq), FALSE)
    /\ UNCHANGED <<now, db, store, before, settings, prefersDark, formatter>>

\* initUI after `await loadTodos()` has returned the list read from the store
initUILoaded(c, d) ==
    /\ Active(c, "load")
    /\ calls[c].handler = "initUI"
    /\ LET made == NewObjects([r \in Refs |-> NoRec],
                              SortDesc(MapNormalize(StoreRecords(store), now)))
       IN  Initialized(c, d, calls, made.heap, made.list, MarkDone(txq), openq, TRUE)
    /\ UNCHANGED <<now, db, store, before, settings, prefersDark, formatter>>

\* initUI after `await loadTodos()` has caught the error of its read and returned
\* an empty list
initUILoadFailed(c, d) ==
    /\ txq # <<>>
    /\ ~Head(txq).done
    /\ Head(txq).call = c
    /\ calls[c].handler = "initUI"
    /\ Initialized(c, d, calls, heap, <<>>, Tail(txq), openq, TRUE)
    /\ UNCHANGED <<now, db, store, before, settings, prefersDark, formatter>>

\* req.onsuccess of indexedDB.open for a call that puts a value that cannot be
\* cloned: store.put throws in the task that creates the transaction, which holds
\* no request and changes nothing
PutRefused ==
    /\ openq # <<>>
    /\ ~Cloneable(calls[Head(openq)].value)
    /\ db' = TRUE
    /\ openq' = Tail(openq)
    /\ StorageFailed(Head(openq))
    /\ UNCHANGED <<now, store, txq, before, settings, prefersDark, formatter, bootstrap>>

-----------------------------------------------------------------------------
(* The markup formatter of script.js *)

\* A text is a sequence of lines and a line a sequence of tokens: the characters of
\* the input, and in the output also entities and tags, one token each.  Splitting
\* at line breaks and joining with "\n" are then the passage between a sequence of
\* lines and the sequence of its tokens with "\n" between the lines.

\* md.replace(/</g, "&lt;").replace(/>/g, "&gt;")
Escape(line) ==
    [n \in 1..Len(line) |->
        CASE line[n] = "<" -> "&lt;"
          [] line[n] = ">" -> "&gt;"
          [] OTHER -> line[n]]

\* the characters \s matches, of those that occur in a line
IsSpace(ch) == ch \in {" ", "\t"}

RECURSIVE TrimStart(_)
TrimStart(line) ==
    IF line # <<>> /\ IsSpace(Head(line)) THEN TrimStart(Tail(line)) ELSE line

RECURSIVE TrimEnd(_)
TrimEnd(line) ==
    IF line # <<>> /\ IsSpace(line[Len(line)])
    THEN TrimEnd(SubSeq(line, 1, Len(line) - 1))
    ELSE line

\* String.prototype.trim
Trim(line) == TrimEnd(TrimStart(line))

\* the least of a non-empty set of indices: where a lazy quantifier stops
Least(S) == CHOOSE x \in S : \A y \in S : x <= y

\* /\*\*(.+?)\*\*/ matched at index p of s: the index of the closing pair of stars,
\* the first one that leaves one character or more, none of them a line break,
\* after the opening pair; 0 if there is no match
StrongClose(s, p) ==
    LET js == {j \in p + 3..Len(s) - 1 :
                  /\ s[j] = "*" /\ s[j + 1] = "*"
                  /\ \A k \in p + 2..j - 1 : s[k] # "\n"}
    IN  IF p < Len(s) /\ s[p] = "*" /\ s[p + 1] = "*" /\ js # {} THEN Least(js) ELSE 0

\* html.replace(/\*\*(.+?)\*\*/g, "<strong>$1</strong>"): the leftmost match is
\* replaced and the search goes on behind it
RECURSIVE Strong(_)
Strong(s) ==
    LET ps == {p \in 1..Len(s) : StrongClose(s, p) # 0}
    IN  IF ps = {} THEN s
        ELSE LET p == Least(ps)
                 j == StrongClose(s, p)
             IN  SubSeq(s, 1, p - 1) \o <<"<strong>">> \o SubSeq(s, p + 2, j - 1)
                 \o <<"</strong>">> \o Strong(SubSeq(s, j + 2, Len(s)))

\* \*(?!\*)(.+?)\*(?!\*) matched with the opening star at index q of s: the index of
\* the closing star, the first star that no star follows and that leaves one
\* character or more, none of them a line break, after the opening star, which no
\* star follows either; 0 if there is no match
EmClose(s, q) ==
    LET js == {j \in q + 2..Len(s) :
                  /\ s[j] = "*" /\ (j = Len(s) \/ s[j + 1] # "*")
                  /\ \A k \in q + 1..j - 1 : s[k] # "\n"}
    IN  IF q < Len(s) /\ s[q] = "*" /\ s[q + 1] # "*" /\ js # {} THEN Least(js) ELSE 0

\* html.replace(/(^|[^*])\*(?!\*)(.+?)\*(?!\*)/g, "$1<em>$2</em>"): the opening star
\* stands at the start of the text or after one character that is no star, which
\* is part of the match and is kept
RECURSIVE Em(_, _)
Em(s, atStart) ==
    LET qs == {q \in 1..Len(s) :
                  /\ EmClose(s, q) # 0
                  /\ IF q = 1 THEN atStart ELSE s[q - 1] # "*"}
    IN  IF qs = {} THEN s
        ELSE LET q == Least(qs)
                 j == EmClose(s, q)
             IN  SubSeq(s, 1, q - 1) \o <<"<em>">> \o SubSeq(s, q + 1, j - 1)
                 \o <<"</em>">> \o Em(SubSeq(s, j + 1, Len(s)), FALSE)

\* /==(.*?)==/ matched at index p of s: the index of the closing pair of equals
\* signs, the first one with no line break before it; 0 if there is no match
MarkClose(s, p) ==
    LET js == {j \in p + 2..Len(s) - 1 :
                  /\ s[j] = "=" /\ s[j + 1] = "="
                  /\ \A k \in p + 2..j - 1 : s[k] # "\n"}
    IN  IF p < Len(s) /\ s[p] = "=" /\ s[p + 1] = "=" /\ js # {} THEN Least(js) ELSE 0

\* html.replace(/==(.*?)==/g, "<mark>$1</mark>")
RECURSIVE Mark(_)
Mark(s) ==
    LET ps == {p \in 1..Len(s) : MarkClose(s, p) # 0}
    IN  IF ps = {} THEN s
        ELSE LET p == Least(ps)
                 j == MarkClose(s, p)
             IN  SubSeq(s, 1, p - 1) \o <<"<mark>">> \o SubSeq(s, p + 2, j - 1)
                 \o <<"</mark>">> \o Mark(SubSeq(s, j + 2, Len(s)))

\* https?:\/\/ : the scheme of a link is one token
Schemes == {"http://", "https://"}

\* the characters [^\s)"] does not match
EndsUrl(ch) == IsSpace(ch) \/ ch \in {"\n", ")", "\""}

\* /\[([^\]]+)\]\((https?:\/\/[^\s)"]+)\)/ matched at index p of s: the indices of
\* the closing bracket and of the closing parenthesis, <<>> if there is no match.
\* The text runs to the first closing bracket and the address to the first
\* character an address cannot hold, which has to be the closing parenthesis.
LinkMatch(s, p) ==
    LET js == {j \in p + 1..Len(s) : s[j] = "]"}
    IN  IF s[p] = "[" /\ js # {}
        THEN LET j == Least(js)
                 ks == {k \in j + 3..Len(s) : EndsUrl(s[k])}
             IN  IF /\ j >= p + 2
                    /\ Len(s) >= j + 4
                    /\ s[j + 1] = "("
                    /\ s[j + 2] \in Schemes
                    /\ ks # {}
                    /\ Least(ks) >= j + 4
                    /\ s[Least(ks)] = ")"
                 THEN <<j, Least(ks)>>
                 ELSE <<>>
        ELSE <<>>

\* text.replace(/"/g, "&quot;")
safeText(text) == [n \in 1..Len(text) |-> IF text[n] = "\"" THEN "&quot;" ELSE text[n]]

\* url.replace(/"/g, "%22")
safeUrl(url) == [n \in 1..Len(url) |-> IF url[n] = "\"" THEN "%22" ELSE url[n]]

\* the opening tag of a link up to the address, and from the address on
HrefOpen == "<a href=\""
HrefClose == "\" target=\"_blank\" rel=\"noopener noreferrer\">"

\* html.replace(/\[([^\]]+)\]\((https?:\/\/[^\s)"]+)\)/g, ...)
RECURSIVE Anchor(_)
Anchor(s) ==
    LET ps == {p \in 1..Len(s) : LinkMatch(s, p) # <<>>}
    IN  IF ps = {} THEN s
        ELSE LET p == Least(ps)
                 m == LinkMatch(s, p)
             IN  SubSeq(s, 1, p - 1) \o <<HrefOpen>>
                 \o safeUrl(SubSeq(s, m[1] + 2, m[2] - 1)) \o <<HrefClose>>
                 \o safeText(SubSeq(s, p + 1, m[1] - 1)) \o <<"</a>">>
                 \o Anchor(SubSeq(s, m[2] + 1, Len(s)))

\* text.split(/\r?\n/)
RECURSIVE SplitLines(_)
SplitLines(s) ==
    LET ns == {n \in 1..Len(s) : s[n] = "\n"}
    IN  IF ns = {} THEN <<s>>
        ELSE <<SubSeq(s, 1, Least(ns) - 1)>>
             \o SplitLines(SubSeq(s, Least(ns) + 1, Len(s)))

\* line.split("|")
RECURSIVE Split(_)
Split(line) ==
    IF line = <<>> THEN << <<>> >>
    ELSE LET rest == Split(Tail(line))
         IN  IF Head(line) = "|"
             THEN << <<>> >> \o rest
             ELSE << <<Head(line)>> \o Head(rest) >> \o Tail(rest)

\* /^\s*\|.*\|\s*$/.test(line): between leading and trailing white space the line
\* starts with one pipe and ends with another
IsRow(line) ==
    LET t == Trim(line)
    IN  Len(t) >= 2 /\ t[1] = "|" /\ t[Len(t)] = "|"

\* a separator test that took cells of a single dash: C20 must tell it from the code
IsSeparatorOfAnyLength(line) ==
    LET pieces == Split(line)
        cells == SubSeq(pieces, 2, Len(pieces) - 1)
    IN  /\ Len(pieces) >= 3
        /\ Trim(pieces[1]) = <<>>
        /\ Trim(pieces[Len(pieces)]) = <<>>
        /\ \A n \in 1..Len(cells) :
              /\ Len(Trim(cells[n])) >= 1
              /\ \A k \in 1..Len(Trim(cells[n])) : Trim(cells[n])[k] \in {"-", ":"}

\* /^\s*\|(\s*[-:]{3,}\s*\|)+\s*$/.test(separatorLine): white space, then one or
\* more cells closed by a pipe, each three or more dashes or colons between white
\* space, then white space
IsSeparator(line) ==
    LET pieces == Split(line)
        cells == SubSeq(pieces, 2, Len(pieces) - 1)
    IN  /\ Len(pieces) >= 3
        /\ Trim(pieces[1]) = <<>>
        /\ Trim(pieces[Len(pieces)]) = <<>>
        /\ \A n \in 1..Len(cells) :
              /\ Len(Trim(cells[n])) >= 3
              /\ \A k \in 1..Len(Trim(cells[n])) : Trim(cells[n])[k] \in {"-", ":"}

\* lines.join("\n")
RECURSIVE Join(_)
Join(ls) ==
    IF ls = <<>> THEN <<>>
    ELSE IF Len(ls) = 1 THEN ls[1]
    ELSE ls[1] \o <<"\n">> \o Join(Tail(ls))

\* line.split("|").slice(1, -1).map((c) => `<tag>${c.trim()}</tag>`).join("")
RECURSIVE Cells(_, _, _)
Cells(pieces, open, close) ==
    IF pieces = <<>> THEN <<>>
    ELSE <<open>> \o Trim(Head(pieces)) \o <<close>> \o Cells(Tail(pieces), open, close)

Slice(pieces) == SubSeq(pieces, 2, Len(pieces) - 1)

RECURSIVE DataRows(_)
DataRows(ls) ==
    IF ls = <<>> THEN <<>>
    ELSE <<"<tr>">> \o Cells(Slice(Split(Head(ls))), "<td>", "</td>") \o <<"</tr>">>
         \o DataRows(Tail(ls))

\* a conversion that made a body row of the separator line too: C21 must tell it
\* from the code
processTableKeepingSeparator(buf) ==
    IF Len(buf) < 2 THEN Join(buf)
    ELSE IF ~IsSeparator(buf[2]) THEN Join(buf)
    ELSE <<"<table>", "<thead>", "<tr>">>
         \o Cells(Slice(Split(buf[1])), "<th>", "</th>")
         \o <<"</tr>", "</thead>", "<tbody>">>
         \o DataRows(SubSeq(buf, 2, Len(buf)))
         \o <<"</tbody>", "</table>">>

processTable(buf) ==
    IF Len(buf) < 2 THEN Join(buf)
    ELSE IF ~IsSeparator(buf[2]) THEN Join(buf)
    ELSE <<"<table>", "<thead>", "<tr>">>
         \o Cells(Slice(Split(buf[1])), "<th>", "</th>")
         \o <<"</tr>", "</thead>", "<tbody>">>
         \o DataRows(SubSeq(buf, 3, Len(buf)))
         \o <<"</tbody>", "</table>">>

\* the formatter is not at work: its local variables do not exist
Returned == pos = 0

\* what parseMarkdown returns
html == Join(output)

\* the text convertTables is given: the angle brackets have been escaped and bold,
\* italic, highlight and links replaced
Inline(text) == Anchor(Mark(Em(Strong(Escape(Join(text))), TRUE)))

\* parseMarkdown(md) up to the loop of convertTables, which works on the lines of
\* the text it is given.  The empty text is returned as it is.
parseMarkdown(text) ==
    /\ Returned
    /\ md' = text
    /\ pos' = IF text = << <<>> >> THEN Len(text) + 2 ELSE 1
    /\ lines' = IF text = << <<>> >> THEN <<>> ELSE SplitLines(Inline(text))
    /\ buffer' = <<>>
    /\ output' = <<>>
    /\ UNCHANGED <<repository, bootstrap>>

\* one turn of the loop of convertTables
ScanLine ==
    /\ pos \in 1..Len(md)
    /\ LET line == lines[pos]
       IN  IF IsRow(line) /\ buffer = <<>>
           THEN buffer' = Append(buffer, line) /\ output' = output
           ELSE IF buffer # <<>>
           THEN IF IsRow(line)
                THEN buffer' = Append(buffer, line) /\ output' = output
                ELSE /\ output' = output \o <<processTable(buffer), line>>
                     /\ buffer' = <<>>
           ELSE buffer' = buffer /\ output' = Append(output, line)
    /\ pos' = pos + 1
    /\ UNCHANGED <<md, lines, repository, bootstrap>>

\* convertTables after the loop
Flush ==
    /\ pos = Len(md) + 1
    /\ output' = IF buffer # <<>> THEN Append(output, processTable(buffer)) ELSE output
    /\ pos' = pos + 1
    /\ UNCHANGED <<md, lines, buffer, repository, bootstrap>>

\* parseMarkdown has returned html: its local variables are gone
Leave ==
    /\ pos = Len(md) + 2
    /\ md' = <<>>
    /\ pos' = 0
    /\ lines' = <<>>
    /\ buffer' = <<>>
    /\ output' = <<>>
    /\ UNCHANGED <<repository, bootstrap>>

-----------------------------------------------------------------------------
(* Specifications *)

\* the items a caller adds: a new object stamped with the current time
NewItems(ids, titles, flags) ==
    {Item(id, title, completed, now, now) : id \in ids, title \in titles, completed \in flags}

\* the items a caller passes to updateTodo as its own object: a copy of an entry of
\* the list with the title set, or an item whose id the list does not hold
Copies(ids, titles, flags) ==
    {[heap[todos[i]] EXCEPT !.title = title] : i \in 1..Len(todos), title \in titles}
    \cup {x \in NewItems(ids, titles, flags) : FindIndex(todos, heap, x.id) = 0}

\* the ids a caller that generates a new id for every new item can still use
FreshIds == Ids \ ({heap[todos[i]].id : i \in 1..Len(todos)}
                   \cup {id \in Ids : store[id] # NoRec}
                   \cup {calls[c].id : c \in Slots})

\* the calls of the callers in S, with the ids of new items, the titles and the
\* completed flags drawn from the given sets; w: the callers note down what they saw
\* when calling
Edits(S, ids, titles, flags, w) ==
    \E c \in S :
        \/ \E item \in NewItems(ids, titles, flags) : addTodo(c, item, w)
        \/ \E i \in 1..Len(todos), title \in titles, completed \in flags :
              UpdateInPlace(c, i, title, completed, w)
        \/ \E item \in Copies(ids, titles, flags) : UpdateCopy(c, item, w)
        \/ \E id \in Ids : deleteTodo(c, id, w)
        \/ loadTodos(c, w)
        \/ Return(c)

\* the calls of caller c with an object without an id, made at time 0, or without
\* an id to delete
InvalidCalls(c, w) ==
    \/ addTodo(c, Item("", "t1", FALSE, 0, 0), w)
    \/ UpdateCopy(c, Item("", "t1", FALSE, 0, 0), w)
    \/ deleteTodo(c, "", w)

\* what a caller passes to exportTodosAsJSON: nothing, or an array of ids
IdArrays == {null, <<>>, <<"a">>, <<"b">>, <<"a", "b">>}

Resumptions ==
    \E c \in Slots :
        \/ addTodoResumed(c)
        \/ updateTodoResumed(c)
        \/ deleteTodoResumed(c)
        \/ loadTodosResumed(c)

Successes ==
    \/ OpenSuccess
    \/ TxComplete
    \/ Resumptions

Failures ==
    \/ OpenError
    \/ RequestError
    \/ TxAbort

\* One caller that awaits each call before making the next; items differ in id,
\* completed flag and time stamps; storage may fail at every step.
Next ==
    \/ Edits({1}, Ids, {"t1"}, BOOLEAN, TRUE)
    \/ clearCompleted(1, TRUE)
    \/ clearCompletedResumed(1)
    \/ Tick
    \/ Successes
    \/ Failures

Spec == Init /\ [][Next]_vars

\* One caller as in Spec, editing titles of items that are never completed.
NextEdit ==
    \/ Edits({1}, Ids, Titles, {FALSE}, TRUE)
    \/ Tick
    \/ Successes
    \/ Failures

SpecEdit == Init /\ [][NextEdit]_vars

\* One caller as in Spec, with a storage that never fails.
NextOk ==
    \/ Edits({1}, Ids, {"t1"}, BOOLEAN, TRUE)
    \/ InvalidCalls(1, TRUE)
    \/ \E ids \in IdArrays : exportTodosAsJSON(1, ids)
    \/ clearCompleted(1, TRUE)
    \/ clearCompletedResumed(1)
    \/ Tick
    \/ Successes

SpecOk == Init /\ [][NextOk]_vars

\* Calls that overlap, none of which fails, within one clock reading; every new
\* item has an id of its own.
NextOverlap ==
    \/ Edits(Slots, FreshIds, {"t1"}, BOOLEAN, FALSE)
    \/ \E c \in Slots : clearCompleted(c, FALSE) \/ clearCompletedResumed(c)
    \/ Successes

SpecOverlap == Init /\ [][NextOverlap]_vars

\* the theme names the callers pass: the sentinel and one that is its own effective
\* theme
Themes == {"auto", "solar"}

\* the calls of caller c on the settings and the theme
SettingCalls(c) ==
    \/ \E themeName \in Themes : setTheme(c, themeName)
    \/ getTheme(c)
    \/ \E key \in Keys \cup {""} : getSetting(c, key)
    \/ \E key \in {"lang", ""} : setSetting(c, key, "en")

SettingResumptions ==
    \E c \in Slots :
        \/ setSettingResumed(c)
        \/ getSettingResumed(c)
        \/ setThemeResumed(c)
        \/ getThemeResumed(c)
        \/ clearAllDataResumed(c)

InitTheme ==
    /\ Loaded
    /\ prefersDark \in BOOLEAN
    /\ NoText
    /\ NotLoaded

\* One caller that sets and reads settings and the theme, adds an item and clears
\* all data; the database and localStorage may fail at every step.
NextTheme ==
    \/ SettingCalls(1)
    \/ \E item \in NewItems({"a"}, {"t1"}, {FALSE}) : addTodo(1, item, TRUE)
    \/ clearAllData(1, TRUE)
    \/ Return(1)
    \/ OpenSuccess
    \/ TxComplete
    \/ addTodoResumed(1)
    \/ SettingResumptions
    \/ Failures

SpecTheme == InitTheme /\ [][NextTheme]_vars

\* One caller that adds items and reloads, within one clock reading; storage may
\* fail at every step.
NextReload ==
    \/ \E item \in NewItems(Ids, {"t1"}, {FALSE}) : addTodo(1, item, TRUE)
    \/ loadTodos(1, TRUE)
    \/ Return(1)
    \/ OpenSuccess
    \/ TxComplete
    \/ addTodoResumed(1)
    \/ loadTodosResumed(1)
    \/ Failures

SpecReload == Init /\ [][NextReload]_vars

\* the objects a caller of the API may hand to addTodo, which stores what it is
\* given: an item as the UI builds it, with a creation time of the caller's choosing,
\* an item without priority, flags and updatedAt, and an object with an id only
Supplied(ids) ==
    {Item(id, "t1", FALSE, created, created) : id \in ids, created \in 0..MaxClock}
    \cup {[id |-> id, title |-> "t1", createdAt |-> created] : id \in ids, created \in 0..MaxClock}
    \cup {[id |-> id] : id \in ids}

\* One caller that adds such objects and reloads; every read succeeds, a write may
\* fail to commit, which leaves an item on the list that is not in the store.
NextLegacy ==
    \/ \E item \in Supplied(Ids) : addTodo(1, item, TRUE)
    \/ loadTodos(1, TRUE)
    \/ Return(1)
    \/ Tick
    \/ OpenSuccess
    \/ TxComplete
    \/ TxAbort
    \/ addTodoResumed(1)
    \/ loadTodosResumed(1)

SpecLegacy == Init /\ [][NextLegacy]_vars

\* items whose time stamps the caller has chosen
Stamped(ids) ==
    {Item(id, "t1", FALSE, created, updated) :
        id \in ids, created \in 0..MaxClock, updated \in 0..MaxClock}

\* One caller that adds items with time stamps of its choosing, updates and reloads;
\* storage may fail at every step.
NextStamps ==
    \/ \E item \in Stamped(Ids) : addTodo(1, item, TRUE)
    \/ \E n \in 1..Len(todos) : UpdateInPlace(1, n, "t1", FALSE, TRUE)
    \/ loadTodos(1, TRUE)
    \/ Return(1)
    \/ Tick
    \/ OpenSuccess
    \/ TxComplete
    \/ addTodoResumed(1)
    \/ updateTodoResumed(1)
    \/ loadTodosResumed(1)
    \/ Failures

SpecStamps == Init /\ [][NextStamps]_vars

\* Callers that initialize, add and load without waiting for one another; an open
\* request may fail.
NextOpen ==
    \/ \E c \in Slots :
          \/ initDB(c)
          \/ \E item \in NewItems(FreshIds, {"t1"}, {FALSE}) : addTodo(c, item, FALSE)
          \/ loadTodos(c, FALSE)
          \/ Return(c)
          \/ addTodoResumed(c)
          \/ loadTodosResumed(c)
    \/ OpenSuccess
    \/ OpenError
    \/ TxComplete

SpecOpen == Init /\ [][NextOpen]_vars

\* lines of text: table rows, one of them indented, separator rows of one and of
\* three dashes, a line that is no row and the empty line
RowAB == <<"|", " ", "A", " ", "|", " ", "B", " ", "|">>
Row12 == <<"|", " ", "1", " ", "|", " ", "2", " ", "|">>
Dash1 == <<"|", " ", "-", " ", "|", " ", "-", " ", "|">>
Dash3 == <<"|", " ", "-", "-", "-", " ", "|", " ", "-", "-", "-", " ", "|">>
Plain == <<"a", "<", "b">>
Indented == <<" ", "|", "x", "|">>
Blank == <<>>

TextLines == {RowAB, Row12, Dash1, Dash3, Plain, Indented, Blank}

\* the texts of up to MaxLines of these lines, and the empty text
Texts == {<< <<>> >>} \cup UNION {[1..n -> TextLines] : n \in 1..MaxLines}

\* Texts are formatted one after the other: a text is chosen only when the formatter
\* is not at work.
NextFormat ==
    \/ Returned /\ \E text \in Texts : parseMarkdown(text)
    \/ ScanLine
    \/ Flush
    \/ Leave

SpecFormat == Init /\ [][NextFormat]_vars

\* One caller that adds items with ids of their own and updates entries of the list
\* in place or by a copy, another one that deletes while the first one waits; no
\* storage operation fails.
NextReplace ==
    \/ \E item \in NewItems(FreshIds, {"t1"}, {FALSE}) : addTodo(1, item, TRUE)
    \/ \E i \in 1..Len(todos), title \in Titles : UpdateInPlace(1, i, title, FALSE, TRUE)
    \/ \E item \in Copies(Ids, Titles, {FALSE}) : UpdateCopy(1, item, TRUE)
    \/ \E id \in Ids : deleteTodo(2, id, FALSE)
    \/ \E c \in {1, 2} : Return(c)
    \/ OpenSuccess
    \/ TxComplete
    \/ addTodoResumed(1)
    \/ updateTodoResumed(1)
    \/ deleteTodoResumed(2)

SpecReplace == Init /\ [][NextReplace]_vars

\* The page: one user who adds items, selects entries, toggles and edits them and
\* completes the selected ones; requests to the database may fail, commits do not.
NextUi ==
    \/ \E item \in NewItems(FreshIds, {"t1"}, BOOLEAN) : addTodo(1, item, FALSE)
    \/ addTodoResumed(1)
    \/ \E i \in 1..Len(todos) : select(i)
    \/ \E i \in 1..Len(todos) : completeToggle(1, i)
    \/ \E id \in Ids : handleSaveEdit(1, id, "t2")
    \/ ReloadAfterUpdate(1)
    \/ handleCompleteSelected(1)
    \/ handleCompleteSelectedResumed(1)
    \/ loadTodosResumed(1)
    \/ Return(1)
    \/ OpenSuccess
    \/ TxComplete
    \/ OpenError
    \/ RequestError

SpecUi == Init /\ [][NextUi]_vars

\* the events of the database for the calls that initUI does not await
ForOthers(c) == calls[c].handler # "initUI"

\* The page is loaded on demand: triggers call loadUI, the import succeeds or fails,
\* initUI opens the database, reads the list and applies the theme; requests to the
\* database may fail.  initUI runs in slot 1, the setTheme of applyInitialTheme in
\* slot 2.
NextBoot ==
    \/ \E t \in Triggers : loadUI(t)
    \/ ImportSuccess(1)
    \/ ImportError
    \/ initUIOpened(1)
    \/ initUIOpenFailed(1, 2)
    \/ initUILoaded(1, 2)
    \/ initUILoadFailed(1, 2)
    \/ (openq # <<>> /\ ForOthers(Head(openq)) /\ Cloneable(calls[Head(openq)].value)
          /\ OpenSuccess)
    \/ PutRefused
    \/ (openq # <<>> /\ ForOthers(Head(openq)) /\ OpenError)
    \/ (txq # <<>> /\ ForOthers(Head(txq).call) /\ RequestError)
    \/ getThemeResumed(1)
    \/ TxComplete

SpecBoot == InitTheme /\ [][NextBoot]_vars

\* lines of text with markup: <b>, **b**, *i*, [x](http://a) and [x](http://==m==)
Tagged == <<"<", "b", ">">>
BoldLine == <<"*", "*", "b", "*", "*">>
EmLine == <<"*", "i", "*">>
LinkLine == <<"[", "x", "]", "(", "http://", "a", ")">>
LinkMarked == <<"[", "x", "]", "(", "http://", "=", "=", "m", "=", "=", ")">>

MarkupLines == {Tagged, BoldLine, EmLine, LinkLine, LinkMarked}

MarkupTexts == UNION {[1..n -> MarkupLines] : n \in 1..MaxLines}

NextMarkup ==
    \/ \E text \in MarkupTexts : parseMarkdown(text)
    \/ ScanLine
    \/ Flush
    \/ Leave

SpecMarkup == Init /\ [][NextMarkup]_vars

-----------------------------------------------------------------------------
(* What the claims speak of *)

Mutators == {"add", "update", "delete"}

ListIds == {heap[todos[i]].id : i \in 1..Len(todos)}

StoreIds == {id \in Ids : store[id] # NoRec}

\* no call is in flight and no transaction is unfinished
Quiet == txq = <<>> /\ openq = <<>> /\ \A c \in Slots : ~InFlight(c)

\* call c of function op has resolved
HasResolved(c, op) == calls[c].op = op /\ calls[c].pc = "resolved"

-----------------------------------------------------------------------------
(* C1..C10 *)

\* C1: while the storage write of a pending add, update or delete has not completed,
\* list() is what it was when the call was made, the fields of an object passed to
\* update by reference included.
C1_ListUntouchedUntilWritten ==
    \A c \in Slots :
        (InFlight(c) /\ calls[c].op \in Mutators) => ListView = before[c].list

\* C2: when the storage write of add, update or delete fails, the call rejects and
\* list() has the ids, the order and the field values (updatedAt too) it had when the
\* call was made.
C2_FailedWriteLeavesList ==
    \A c \in Slots :
        (calls[c].pc = "rejected" /\ calls[c].op \in Mutators) => ListView = before[c].list

\* C3: an adapter operation resolves only after its transaction has committed: no
\* transaction whose operation has resolved is still uncommitted.
C3_ResolvedOnlyAfterCommit ==
    \A i \in 1..Len(txq) : ~txq[i].done

\* C4: after add(i) resolves, list() holds exactly one item with the id of i, and
\* its fields are those of i.
C4_AddedExactlyOnce ==
    \A c \in Slots :
        HasResolved(c, "add") =>
            LET hits == {i \in 1..Len(todos) : ListView[i].id = calls[c].id}
            IN  /\ Cardinality(hits) = 1
                /\ \A i \in hits : ListView[i] = before[c].arg

\* C5: no two entries of the in-memory list have the same id.
C5_IdsUnique ==
    \A i, j \in 1..Len(todos) : i # j => heap[todos[i]].id # heap[todos[j]].id

\* C6: after successful adds, updates and deletes, a load() yields the same set of
\* items (ids and field values) list() showed before the load, by createdAt descending.
C6_ReloadReproducesList ==
    \A c \in Slots :
        HasResolved(c, "load") =>
            /\ Range(ListView) = Range(before[c].list)
            /\ \A i, j \in 1..Len(todos) :
                  i < j => ListView[i].createdAt >= ListView[j].createdAt

\* C7: once no overlapping call is in flight any more, the ids of the in-memory list
\* are the ids of the persistent collection.
C7_QuietListMatchesStore ==
    Quiet => ListIds = StoreIds

\* C8: after update with a changed title resolves, the entry of that id shows the
\* new title and an updatedAt strictly greater than the one it had before the call.
C8_UpdateAdvancesUpdatedAt ==
    \A c \in Slots :
        HasResolved(c, "update") =>
            LET k == CHOOSE i \in 0..Len(before[c].list) :
                        /\ i > 0 => before[c].list[i].id = calls[c].id
                        /\ \A j \in 1..Len(before[c].list) :
                              before[c].list[j].id = calls[c].id => (i > 0 /\ i <= j)
            IN  (k > 0 /\ before[c].list[k].title # before[c].arg.title) =>
                    /\ ListView[k].id = calls[c].id
                    /\ ListView[k].title = before[c].arg.title
                    /\ ListView[k].updatedAt > before[c].list[k].updatedAt

\* C9: after delete(id) has resolved and its transaction has finished, neither
\* list() nor the persistent collection holds an item with that id.
C9_DeletedEverywhere ==
    \A c \in Slots :
        (HasResolved(c, "delete") /\ txq = <<>>) =>
            /\ calls[c].id \notin ListIds
            /\ store[calls[c].id] = NoRec

\* C10: after clearCompleted() has resolved and its transactions have finished, the
\* completed items of the list are gone from the list and from the persistent
\* collection, and the others are in the list with their fields and order unchanged.
C10_CompletedClearedOthersKept ==
    \A c \in Slots :
        (HasResolved(c, "clearCompleted") /\ txq = <<>>) =>
            /\ ListView = SelectSeq(before[c].list, LAMBDA x : ~x.completed)
            /\ \A i \in 1..Len(before[c].list) :
                  before[c].list[i].completed => store[before[c].list[i].id] = NoRec

-----------------------------------------------------------------------------
(* C11..C20 *)

\* what getSetting(key) returns for the committed settings
Setting(key) == FindSetting(RecordsFrom(settings, KeyOrder), key)

\* C11: after clearAll() has resolved and its transactions have finished, list() is
\* empty, the persistent items collection is empty and getSetting(k) yields null for
\* every key, whatever had been set in the settings store or in the fallback store.
C11_ClearAllEmptiesEverything ==
    \A c \in Slots :
        (HasResolved(c, "clearAll") /\ txq = <<>>) =>
            /\ ListView = <<>>
            /\ StoreRecords(store) = <<>>
            /\ \A key \in Keys : Setting(key) = null

\* C12: load() never rejects: when the storage read has failed the call resolves with
\* an empty list and the in-memory list is empty, whatever it held before.
C12_FailedLoadResolvesEmpty ==
    \A c \in Slots :
        calls[c].op = "load" =>
            /\ calls[c].pc # "rejected"
            /\ (calls[c].pc = "resolved" /\ "storage" \in calls[c].err) =>
                  (calls[c].ret = <<>> /\ todos = <<>>)

\* a load fails while the list holds two items
C12_FailedLoadOfFullList ==
    \E c \in Slots :
        /\ HasResolved(c, "load")
        /\ "storage" \in calls[c].err
        /\ Len(before[c].list) = 2

Has(t, f) == f \in DOMAIN t

\* entry x of the list is the normalized form of the stored record t
NormalizedFrom(x, t) ==
    /\ x.id = t.id
    /\ x.title = (IF Has(t, "title") THEN t.title ELSE "")
    /\ x.priority = (IF Has(t, "priority") THEN t.priority ELSE "medium")
    /\ x.completed = (IF Has(t, "completed") THEN t.completed ELSE FALSE)
    /\ x.selected = (IF Has(t, "selected") THEN t.selected ELSE FALSE)
    /\ IF Has(t, "createdAt") THEN x.createdAt = t.createdAt ELSE x.createdAt \in 0..now
    /\ x.updatedAt = (IF Has(t, "updatedAt") THEN t.updatedAt ELSE x.createdAt)

\* C13: after a successful load() the in-memory list has exactly one entry per stored
\* record, the normalized form of that record (priority medium, selected and completed
\* false, updatedAt the createdAt or the time of the load where the record has none),
\* it has no other entry, and its entries are in non-increasing createdAt order.
C13_LoadNormalizesAndSorts ==
    \A c \in Slots :
        (HasResolved(c, "load") /\ calls[c].err = {}) =>
            /\ Len(todos) = Cardinality(StoreIds)
            /\ \A id \in StoreIds :
                  \E n \in 1..Len(todos) : NormalizedFrom(ListView[n], store[id])
            /\ \A n, m \in 1..Len(todos) :
                  n < m => ListView[n].createdAt >= ListView[m].createdAt

\* a load succeeds with two records stored, the later-created one under the greater
\* key and the other without priority, while the list showed under that id an item
\* with a priority, whose write had not committed
C13_LoadOfBareRecords ==
    \E c \in Slots :
        /\ HasResolved(c, "load")
        /\ calls[c].err = {}
        /\ StoreIds = Ids
        /\ ~Has(store["a"], "priority")
        /\ Has(store["a"], "createdAt") /\ Has(store["b"], "createdAt")
        /\ store["a"].createdAt < store["b"].createdAt
        /\ \E n \in 1..Len(before[c].list) :
              before[c].list[n].id = "a" /\ Has(before[c].list[n], "priority")

\* C14: every item of the in-memory list and every record of the persistent
\* collection has an updatedAt not earlier than its createdAt, whatever time stamps
\* the callers of add, update and load supply.
C14_UpdatedNotBeforeCreated ==
    /\ \A n \in 1..Len(todos) : ListView[n].updatedAt >= ListView[n].createdAt
    /\ \A id \in StoreIds : store[id].updatedAt >= store[id].createdAt

\* C15: the database is opened at most once: never are two open requests pending, and
\* none is pending once the handle is cached, however initialize() and storage calls
\* overlap.
C15_OneOpenRequest ==
    /\ Len(openq) <= 1
    /\ db => openq = <<>>

\* C16: add, update and delete called without an id are rejected for their argument
\* with no storage operation started (no open request, no transaction but those of
\* the caller's earlier calls, whose requests have been served), with list() as it was
\* and the object passed as it was, its updatedAt included.
C16_MissingIdRefused ==
    \A c \in Slots :
        (calls[c].op \in Mutators /\ calls[c].id = "") =>
            /\ calls[c].pc = "rejected"
            /\ calls[c].err = {"argument"}
            /\ \A n \in 1..Len(openq) : openq[n] # c
            /\ \A n \in 1..Len(txq) : txq[n].call = c => txq[n].done
            /\ ListView = before[c].list
            /\ calls[c].op # "delete" => heap[calls[c].ref] = before[c].arg

\* an update without an id is refused at a time later than the object's updatedAt,
\* with an item on the list
C16_UpdateWithoutIdRefused ==
    \E c \in Slots :
        /\ calls[c].op = "update"
        /\ calls[c].id = ""
        /\ calls[c].pc = "rejected"
        /\ now > before[c].arg.updatedAt
        /\ Len(todos) > 0

\* C17: exportSelection(ids) serializes exactly the items of the in-memory list whose
\* id is among ids, for every array of ids given, the empty one included, and all
\* items only when no ids are given.
C17_ExportsExactlyTheSelection ==
    \A c \in Slots :
        HasResolved(c, "export") =>
            calls[c].ret = IF calls[c].ids = null
                           THEN ListView
                           ELSE SelectSeq(ListView, LAMBDA t : t.id \in Range(calls[c].ids))

\* the effective theme for the name call c was given
EffectiveTheme(c) ==
    IF calls[c].value = "auto" THEN (IF prefersDark THEN "dark" ELSE "light")
    ELSE calls[c].value

C19_FailedReadYieldsSecondary ==
    \A c \in Slots :
        calls[c].op = "getTheme" =>
            /\ calls[c].pc # "rejected"
            /\ calls[c].pc = "resolved" =>
                  /\ (calls[c].err = {} /\ Setting("theme") # null) =>
                        calls[c].ret = Setting("theme")
                  /\ ("storage" \in calls[c].err /\ local["theme"] # null) =>
                        calls[c].ret = local["theme"]
                  /\ (Setting("theme") = null /\ local["theme"] = null) =>
                        calls[c].ret = "light"

\* C19, amended: getTheme() never rejects; it returns the theme of the primary
\* settings collection; when the primary read has failed it returns the value of the
\* secondary store, or light when the secondary store cannot be read either; when
\* neither holds a value it returns light.
C19_GetThemeNeverFails ==
    \A c \in Slots :
        calls[c].op = "getTheme" =>
            /\ calls[c].pc # "rejected"
            /\ calls[c].pc = "resolved" =>
                  /\ (calls[c].err = {} /\ Setting("theme") # null) =>
                        calls[c].ret = Setting("theme")
                  /\ (calls[c].err = {"storage"} /\ local["theme"] # null) =>
                        calls[c].ret = local["theme"]
                  /\ "local" \in calls[c].err => calls[c].ret = "light"
                  /\ (Setting("theme") = null /\ local["theme"] = null) =>
                        calls[c].ret = "light"

\* the primary read fails while the settings hold "auto" and the secondary store
\* holds "solar", which can be read
C19_ReadFallsBackToSolar ==
    \E c \in Slots :
        /\ HasResolved(c, "getTheme")
        /\ calls[c].err = {"storage"}
        /\ Setting("theme") = "auto"
        /\ local["theme"] = "solar"

\* parseMarkdown has returned for the text md
Formatted(text) == md = text /\ pos = Len(md) + 2

\* the table with header cells A and B and one body row with cells 1 and 2
TableAB12 ==
    <<"<table>", "<thead>", "<tr>", "<th>", "A", "</th>", "<th>", "B", "</th>", "</tr>",
      "</thead>", "<tbody>", "<tr>", "<td>", "1", "</td>", "<td>", "2", "</td>", "</tr>",
      "</tbody>", "</table>">>

\* C20 as stated: for the three lines | A | B |, | - | - |, | 1 | 2 | the output is
\* a table with header cells A and B and exactly one body row with cells 1 and 2.
C20_OneDashSeparatorMakesTable ==
    Formatted(<<RowAB, Dash1, Row12>>) => html = TableAB12

\* C20, amended: for the three lines | A | B |, | --- | --- |, | 1 | 2 | the output
\* is a table with header cells A and B and exactly one body row with cells 1 and 2;
\* with the separator line | - | - | the three lines are returned as they are.
C20_ThreeDashSeparatorMakesTable ==
    /\ Formatted(<<RowAB, Dash3, Row12>>) => html = TableAB12
    /\ Formatted(<<RowAB, Dash1, Row12>>) => html = Join(<<RowAB, Dash1, Row12>>)

\* the three lines with the separator of three dashes have been formatted
C20_ThreeDashTableFormatted ==
    Formatted(<<RowAB, Dash3, Row12>>)

-----------------------------------------------------------------------------
(* C21..C28 *)

\* the rows a sequence of lines starts with
RECURSIVE Run(_)
Run(ls) ==
    IF ls # <<>> /\ IsRow(Head(ls)) THEN <<Head(ls)>> \o Run(Tail(ls)) ELSE <<>>

\* the table of a run: its first line the header, the lines after the second one
\* the body rows
TableOf(run) ==
    <<"<table>", "<thead>", "<tr>">>
    \o Cells(Slice(Split(run[1])), "<th>", "</th>")
    \o <<"</tr>", "</thead>", "<tbody>">>
    \o DataRows(SubSeq(run, 3, Len(run)))
    \o <<"</tbody>", "</table>">>

\* the lines and tables a sequence of lines is to become
RECURSIVE Converted(_)
Converted(ls) ==
    IF ls = <<>> THEN <<>>
    ELSE LET run == Run(ls)
         IN  IF run = <<>> THEN <<Head(ls)>> \o Converted(Tail(ls))
             ELSE (IF Len(run) >= 2 /\ IsSeparator(run[2]) THEN <<TableOf(run)>> ELSE run)
                  \o Converted(SubSeq(ls, Len(run) + 1, Len(ls)))

\* C21: of the lines given to the table conversion, every maximal run of rows has
\* become one table if it has two lines or more and its second line is a separator
\* with cells of three or more dashes or colons (the first line the header, the
\* lines after the separator the body rows), and is there as it was otherwise; every
\* other line is there unchanged; lines and tables are in the order of the input.
C21_RunsBecomeTables ==
    pos = Len(md) + 2 => html = Join(Converted(lines))

\* a text of a table, a line that is no row and a run of one row has been formatted
C21_TableLineAndShortRun ==
    Formatted(<<RowAB, Dash3, Plain, Row12>>)

\* the tags the formatter writes
Tags ==
    {"<strong>", "</strong>", "<em>", "</em>", "<mark>", "</mark>", HrefOpen, HrefClose,
     "</a>", "<table>", "</table>", "<thead>", "</thead>", "<tbody>", "</tbody>",
     "<tr>", "</tr>", "<th>", "</th>", "<td>", "</td>"}

\* the tokens of the address of the link opened at index n of s
Href(s, n) ==
    SubSeq(s, n + 1, Least({k \in n + 1..Len(s) : s[k] = HrefClose}) - 1)

\* C22: the output holds no angle bracket of the input but as &lt; or &gt;, and no
\* tag written by one pass ends up inside the address of a link written by a later
\* one.
C22_NoTagFromInputNorInsideHref ==
    pos = Len(md) + 2 =>
        /\ \A n \in 1..Len(html) : html[n] \notin {"<", ">"}
        /\ \A n \in 1..Len(html) :
              html[n] = HrefOpen => \A k \in 1..Len(Href(html, n)) : Href(html, n)[k] \notin Tags

\* the index of the first entry of the list with the id, 0 if there is none
FirstWithId(view, id) ==
    IF \E n \in 1..Len(view) : view[n].id = id
    THEN Least({n \in 1..Len(view) : view[n].id = id})
    ELSE 0

\* C23: the step in which an update resolves replaces the entry of the list that has
\* the id of the item and leaves the length of the list and every other entry as
\* they are; only if no entry has the id is the item put in front of the list, which
\* grows by one.
C23_UpdateReplacesInPlace ==
    [][\A c \in Slots :
          (calls[c].op = "update" /\ InFlight(c) /\ calls'[c].pc = "resolved") =>
              LET item == heap[calls[c].ref]
                  k == FirstWithId(ListView, item.id)
              IN  IF k = 0
                  THEN ListView' = <<item>> \o ListView
                  ELSE /\ Len(ListView') = Len(ListView)
                       /\ ListView'[k] = item
                       /\ \A n \in 1..Len(ListView) : n # k => ListView'[n] = ListView[n]]_vars

\* an update with the title "t2" has resolved: the list held two entries at the
\* call, the second one had the id, and both are where they were
C23_SecondEntryReplaced ==
    /\ HasResolved(1, "update")
    /\ Len(before[1].list) = 2
    /\ before[1].list[2].id = calls[1].id
    /\ before[1].arg.title = "t2"
    /\ Len(todos) = 2
    /\ ListView[1] = before[1].list[1]
    /\ ListView[2] = [before[1].arg EXCEPT !.updatedAt = now]

\* the ids of the completed items of a view, in its order
CompletedOf(view) ==
    LET done == SelectSeq(view, LAMBDA t : t.completed)
    IN  [n \in 1..Len(done) |-> done[n].id]

\* C24: in the step in which clearCompleted rejects because one of its deletes has
\* failed, the completed items whose deletes had resolved before are gone from the
\* store, the failed delete and the ones not yet made take nothing from the store
\* (it is left as it is and no delete of the call is under way), and the list is
\* what it was when the call was made.
C24_FailedClearIsPartial ==
    [][\A c \in Slots :
          (calls[c].op = "clearCompleted" /\ InFlight(c) /\ calls'[c].pc = "rejected") =>
              LET left == Range(calls[c].toDelete)
              IN  /\ \A id \in Range(CompletedOf(before[c].list)) \ left : store'[id] = NoRec
                  /\ store' = store
                  /\ \A n \in 1..Len(txq') : txq'[n].call # c
                  /\ ListView' = before[c].list]_vars

\* C25: when the update of the complete toggle or of the edit dialog has failed,
\* list() shows what it showed before the user acted: the entry has the completed
\* flag, the title and the time stamps it had.
C25_FailedHandlerLeavesList ==
    \A c \in Slots :
        (calls[c].handler \in {"completeToggle", "handleSaveEdit"} /\ calls[c].pc = "rejected")
            => ListView = before[c].list

\* C27: when the complete-selected action has ended with its updates and its reload
\* done, every entry that was selected is completed and no entry of list() is
\* selected.
C27_BulkCompleteDeselects ==
    \A c \in Slots :
        (/\ calls[c].handler = "handleCompleteSelected"
         /\ HasResolved(c, "load")
         /\ calls[c].err = {}) =>
            /\ \A n \in 1..Len(before[c].list) :
                  before[c].list[n].selected =>
                      \E m \in 1..Len(todos) :
                          /\ ListView[m].id = before[c].list[n].id
                          /\ ListView[m].completed
            /\ \A m \in 1..Len(todos) : ~ListView[m].selected

\* 'auto'|'light'|'dark'|'solar'|'pastel'|'high-contrast'
ThemeNames == {"auto", "light", "dark", "solar", "pastel", "high-contrast"}

\* C26: the value stored under the key "theme" in the settings store and in
\* localStorage and the theme applied to the document, if there is one, are names of
\* the enumeration of themes, also after initUI has run applyInitialTheme.
C26_ThemeInEnumeration ==
    /\ Setting("theme") \in ThemeNames \cup {null}
    /\ local["theme"] \in ThemeNames \cup {null}
    /\ applied \in ThemeNames \cup {null}

\* C28: ui.js is imported and initUI invoked at most once; a call of loadUI has
\* returned only if the initialization has settled with success, and has thrown only
\* if it has failed; once the initialization has settled the overlay is hidden.
C28_OneInitializationAwaited ==
    /\ imports <= 1
    /\ inits <= 1
    /\ \A t \in Triggers :
          /\ loading[t] = "returned" => initPromise = "fulfilled"
          /\ loading[t] = "thrown" => initPromise = "rejected"
    /\ initPromise \in {"fulfilled", "rejected"} => ~loader

====
